---- MODULE Spec2Model ----
(***************************************************************************)
(* State-machine models of odabnote's procedural code:                     *)
(*                                                                         *)
(*   - backend/pdf_render.js: the command-line HTML -> PDF renderer        *)
(*     (argument check, generatePDF's try / catch / finally pipeline and   *)
(*     the .then / .catch handlers that pick the exit status);             *)
(*   - frontend/static/js/main.js: debounce, extractText and the           *)
(*     showLoading / hideLoading pair.                                     *)
(*                                                                         *)
(* Each component has its own specification (SpecRender, FairSpecRender,   *)
(* SpecDebounce, SpecExtract, SpecLoading); the variables of the other     *)
(* components stay at their initial values.                                *)
(***************************************************************************)
EXTENDS Integers, Sequences, FiniteSets, TLC

VARIABLES
    \* ---- pdf_render.js ----
    argc,           \* args.length, process.argv.slice(2)
    htmlExists,     \* what fs.existsSync(htmlPath) answers
    execOverride,   \* process.env.PUPPETEER_EXECUTABLE_PATH is set
    execExists,     \* the browser executable in use exists
    pc,             \* position of the script / of generatePDF
    waiting,        \* the step generatePDF is suspended on (await), or "none"
    inflight,       \* asynchronous steps started and not yet settled
    browser,        \* the local `browser`: "undefined" or "open" or "closed"
    closeCalls,     \* number of calls of browser.close()
    outputWritten,  \* page.pdf wrote the file at outputPath
    exitCode,       \* -1 while the process runs, else the exit status
    attempts,       \* per step, how many times it was started
    completed,      \* steps that completed, in order of completion
    failed,         \* the step whose error reached a handler, or "none"
    generateCalled, \* generatePDF was invoked
    promise,        \* generatePDF's promise: "none", "pending", "resolved", "rejected"
    \* ---- main.js: debounce ----
    wait,           \* the `wait` argument of debounce(func, wait)
    now,            \* the clock, in the unit of `wait`
    timeout,        \* the closure's `timeout`: a timer id, 0 while undefined
    timers,         \* the timers setTimeout has scheduled and that are still pending
    nextId,         \* the id the next setTimeout returns
    calls,          \* the calls of executedFunction so far: time and arguments
    invoked,        \* the invocations of func so far: time, arguments, calls made before
    \* ---- main.js: extractText ----
    button,         \* event.target: disabled and textContent
    textarea,       \* whether textarea[name="problem_text"] exists, and its value
    xt,             \* per invocation of extractText: position and originalText
    seen,           \* the ways an invocation has ended so far
    \* ---- main.js: showLoading / hideLoading ----
    body,           \* document.body's children that main.js appended, in document order
    serial,         \* number of elements created so far
    lastOp          \* the function that returned last

renderVars == <<argc, htmlExists, execOverride, execExists, pc, waiting, inflight,
                browser, closeCalls, outputWritten, exitCode, attempts, completed,
                failed, generateCalled, promise>>

debounceVars == <<wait, now, timeout, timers, nextId, calls, invoked>>

extractVars == <<button, textarea, xt, seen>>

loadingVars == <<body, serial, lastOp>>

vars == <<renderVars, debounceVars, extractVars, loadingVars>>

\* Largest argument count tried.
MaxArgs == 3

(***************************************************************************)
(* pdf_render.js                                                           *)
(***************************************************************************)

\* The calls of generatePDF's try block and finally block, in source order.
Steps == <<"launch", "newPage", "readFile", "setContent", "fonts", "delay", "pdf", "close">>

StepSet == {Steps[i] : i \in 1..Len(Steps)}

\* The steps of the try block (line 24 to line 68).
TrySteps == StepSet \ {"close"}

\* Where control goes when a step of the try block has completed.
Succ(s) ==
    CASE s = "launch"     -> "newPage"
      [] s = "newPage"    -> "readFile"
      [] s = "readFile"   -> "setContent"
      [] s = "setContent" -> "fonts"
      [] s = "fonts"      -> "delay"
      [] s = "delay"      -> "pdf"
      [] s = "pdf"        -> "finally"
      [] OTHER            -> "return"

\* A variant of the pipeline that does not await the settle delay.
AwaitedNoDelay(s) == s \in {"launch", "newPage", "setContent", "fonts", "pdf", "close"}

\* The calls written `await f(...)`: every step but fs.readFileSync, which is
\* synchronous.
Awaited(s) == s \in {"launch", "newPage", "setContent", "fonts", "delay", "pdf", "close"}

\* process.exit(code): the process ends at once; nothing after it runs, neither
\* the rest of the function nor a finally block nor a promise handler.
ProcessExit(code) ==
    /\ exitCode' = code
    /\ pc' = "exited"
    /\ waiting' = "none"

RenderInit ==
    /\ argc \in 0..MaxArgs
    /\ htmlExists \in BOOLEAN
    /\ execOverride \in BOOLEAN
    /\ execExists \in BOOLEAN
    /\ pc = "main"
    /\ waiting = "none"
    /\ inflight = {}
    /\ browser = "undefined"
    /\ closeCalls = 0
    /\ outputWritten = FALSE
    /\ exitCode = -1
    /\ attempts = [s \in StepSet |-> 0]
    /\ completed = <<>>
    /\ failed = "none"
    /\ generateCalled = FALSE
    /\ promise = "none"

\* A variant of the argument check that only rejects too few arguments.
ArgCheckAtLeast ==
    /\ pc = "main"
    /\ IF argc < 2
         THEN /\ ProcessExit(1)
              /\ UNCHANGED <<generateCalled, promise>>
         ELSE /\ pc' = "exists"
              /\ generateCalled' = TRUE
              /\ promise' = "pending"
              /\ UNCHANGED <<exitCode, waiting>>
    /\ UNCHANGED <<argc, htmlExists, execOverride, execExists, inflight, browser,
                   closeCalls, outputWritten, attempts, completed, failed>>

\* Lines 83-92: the argument-count check, then the call of generatePDF.
ArgCheck ==
    /\ pc = "main"
    /\ IF argc # 2
         THEN /\ ProcessExit(1)
              /\ UNCHANGED <<generateCalled, promise>>
         ELSE /\ pc' = "exists"
              /\ generateCalled' = TRUE
              /\ promise' = "pending"
              /\ UNCHANGED <<exitCode, waiting>>
    /\ UNCHANGED <<argc, htmlExists, execOverride, execExists, inflight, browser,
                   closeCalls, outputWritten, attempts, completed, failed>>

\* A variant of the existence check that reports the missing file and goes on.
ExistsCheckNoExit ==
    /\ pc = "exists"
    /\ pc' = "launch"
    /\ UNCHANGED <<argc, htmlExists, execOverride, execExists, waiting, inflight, browser,
                   closeCalls, outputWritten, exitCode, attempts, completed, failed,
                   generateCalled, promise>>

\* Lines 16-19: fs.existsSync(htmlPath), exit 1 when the file is missing.
ExistsCheck ==
    /\ pc = "exists"
    /\ IF ~htmlExists
         THEN ProcessExit(1)
         ELSE /\ pc' = "launch"
              /\ UNCHANGED <<exitCode, waiting>>
    /\ UNCHANGED <<argc, htmlExists, execOverride, execExists, inflight, browser,
                   closeCalls, outputWritten, attempts, completed, failed,
                   generateCalled, promise>>

\* Control reaches the call of step s of the try block and makes it. An awaited
\* call suspends generatePDF until it settles; a synchronous call does not return
\* before it has settled either, so it is waited for as well.
Begin(s) ==
    /\ s \in TrySteps
    /\ pc = s
    /\ waiting = "none"
    /\ inflight' = inflight \cup {s}
    /\ attempts' = [attempts EXCEPT ![s] = @ + 1]
    /\ IF Awaited(s) \/ s = "readFile"
         THEN /\ waiting' = s
              /\ UNCHANGED pc
         ELSE /\ pc' = Succ(s)
              /\ UNCHANGED waiting
    /\ UNCHANGED <<argc, htmlExists, execOverride, execExists, browser, closeCalls,
                   outputWritten, exitCode, completed, failed, generateCalled, promise>>

\* Whether step s can succeed: puppeteer.launch needs the executable of line 34.
CanSucceed(s) == s = "launch" => execExists

\* Step s of the try block completes: `browser` is assigned when launch resolves
\* (line 24), page.pdf has written outputPath when it resolves (line 58).
Complete(s) ==
    /\ s \in TrySteps
    /\ s \in inflight
    /\ exitCode = -1
    /\ CanSucceed(s)
    /\ inflight' = inflight \ {s}
    /\ completed' = Append(completed, s)
    /\ browser' = IF s = "launch" THEN "open" ELSE browser
    /\ outputWritten' = IF s = "pdf" THEN TRUE ELSE outputWritten
    /\ IF waiting = s
         THEN /\ waiting' = "none"
              /\ pc' = Succ(s)
         ELSE UNCHANGED <<waiting, pc>>
    /\ UNCHANGED <<argc, htmlExists, execOverride, execExists, closeCalls, exitCode,
                   attempts, failed, generateCalled, promise>>

\* Step s of the try block throws (or its promise rejects): control goes to the
\* catch block of line 72.
Throw(s) ==
    /\ s \in TrySteps
    /\ s \in inflight
    /\ exitCode = -1
    /\ inflight' = inflight \ {s}
    /\ IF waiting = s
         THEN /\ waiting' = "none"
              /\ pc' = "catch"
              /\ failed' = s
         ELSE UNCHANGED <<waiting, pc, failed>>
    /\ UNCHANGED <<argc, htmlExists, execOverride, execExists, browser, closeCalls,
                   outputWritten, exitCode, attempts, completed, generateCalled, promise>>

\* A variant of the catch block that starts the pipeline again, once.
CatchBlockRetry ==
    /\ pc = "catch"
    /\ IF attempts["launch"] < 2
         THEN /\ pc' = "launch"
              /\ UNCHANGED <<exitCode, waiting>>
         ELSE ProcessExit(1)
    /\ UNCHANGED <<argc, htmlExists, execOverride, execExists, inflight, browser,
                   closeCalls, outputWritten, attempts, completed, failed,
                   generateCalled, promise>>

\* A variant of the catch block that logs the error and does not exit.
CatchBlockSwallow ==
    /\ pc = "catch"
    /\ pc' = "finally"
    /\ UNCHANGED <<argc, htmlExists, execOverride, execExists, waiting, inflight, browser,
                   closeCalls, outputWritten, exitCode, attempts, completed, failed,
                   generateCalled, promise>>

\* Lines 72-75: the catch block logs the error and calls process.exit(1). The
\* process ends there: the finally block of lines 75-79 does not run.
CatchBlock ==
    /\ pc = "catch"
    /\ ProcessExit(1)
    /\ UNCHANGED <<argc, htmlExists, execOverride, execExists, inflight, browser,
                   closeCalls, outputWritten, attempts, completed, failed,
                   generateCalled, promise>>

\* Lines 75-79, reached when the try block ran to its end: `if (browser)` then
\* the call of browser.close(), awaited.
FinallyBlock ==
    /\ pc = "finally"
    /\ waiting = "none"
    /\ IF browser # "undefined"
         THEN /\ closeCalls' = closeCalls + 1
              /\ attempts' = [attempts EXCEPT !["close"] = @ + 1]
              /\ inflight' = inflight \cup {"close"}
              /\ IF Awaited("close")
                   THEN /\ waiting' = "close"
                        /\ UNCHANGED <<pc, promise>>
                   ELSE /\ pc' = "return"
                        /\ promise' = "resolved"
                        /\ UNCHANGED waiting
         ELSE /\ pc' = "return"
              /\ promise' = "resolved"
              /\ UNCHANGED <<closeCalls, attempts, inflight, waiting>>
    /\ UNCHANGED <<argc, htmlExists, execOverride, execExists, browser, outputWritten,
                   exitCode, completed, failed, generateCalled>>

\* browser.close() resolves: generatePDF returns and its promise resolves.
CloseDone ==
    /\ "close" \in inflight
    /\ exitCode = -1
    /\ inflight' = inflight \ {"close"}
    /\ completed' = Append(completed, "close")
    /\ browser' = "closed"
    /\ IF waiting = "close"
         THEN /\ waiting' = "none"
              /\ pc' = "return"
              /\ promise' = "resolved"
         ELSE UNCHANGED <<waiting, pc, promise>>
    /\ UNCHANGED <<argc, htmlExists, execOverride, execExists, closeCalls, outputWritten,
                   exitCode, attempts, failed, generateCalled>>

\* browser.close() rejects inside the finally block: the error leaves
\* generatePDF, whose promise rejects.
CloseThrow ==
    /\ "close" \in inflight
    /\ exitCode = -1
    /\ inflight' = inflight \ {"close"}
    /\ IF waiting = "close"
         THEN /\ waiting' = "none"
              /\ pc' = "return"
              /\ promise' = "rejected"
              /\ failed' = "close"
         ELSE UNCHANGED <<waiting, pc, promise, failed>>
    /\ UNCHANGED <<argc, htmlExists, execOverride, execExists, browser, closeCalls,
                   outputWritten, exitCode, attempts, completed, generateCalled>>

\* Lines 93-96: .then(() => process.exit(0)).
ThenHandler ==
    /\ pc = "return"
    /\ promise = "resolved"
    /\ ProcessExit(0)
    /\ UNCHANGED <<argc, htmlExists, execOverride, execExists, inflight, browser,
                   closeCalls, outputWritten, attempts, completed, failed,
                   generateCalled, promise>>

\* Lines 97-100: .catch(() => process.exit(1)).
CatchHandler ==
    /\ pc = "return"
    /\ promise = "rejected"
    /\ ProcessExit(1)
    /\ UNCHANGED <<argc, htmlExists, execOverride, execExists, inflight, browser,
                   closeCalls, outputWritten, attempts, completed, failed,
                   generateCalled, promise>>

(***************************************************************************)
(* main.js: debounce (lines 149-159)                                       *)
(***************************************************************************)

\* Number of calls of the debounced function tried.
MaxCalls == 3

\* The clock stops here.
MaxTime == 3

\* Largest `wait` tried.
MaxWait == 2

\* Number of distinct argument values tried.
NumArgs == 2

DebounceInit ==
    /\ wait \in 0..MaxWait
    /\ now = 0
    /\ timeout = 0
    /\ timers = {}
    /\ nextId = 1
    /\ calls = <<>>
    /\ invoked = <<>>

\* clearTimeout(id): the pending timer with that id, if any, is dropped; an id
\* that names no pending timer (undefined, or a timer that has fired) is ignored.
ClearTimeout(ts, id) == {t \in ts : t.id # id}

\* A variant of executedFunction that does not clear the pending timer.
CallNoClear(a) ==
    /\ Len(calls) < MaxCalls
    /\ timers' = timers \cup {[id |-> nextId, due |-> now + wait, args |-> a]}
    /\ timeout' = nextId
    /\ nextId' = nextId + 1
    /\ calls' = Append(calls, [time |-> now, args |-> a])
    /\ UNCHANGED <<wait, now, invoked>>

\* Lines 151-158: executedFunction(...args): clearTimeout(timeout), then
\* timeout = setTimeout(later, wait), `later` holding this call's args.
Call(a) ==
    /\ Len(calls) < MaxCalls
    /\ timers' = ClearTimeout(timers, timeout)
                    \cup {[id |-> nextId, due |-> now + wait, args |-> a]}
    /\ timeout' = nextId
    /\ nextId' = nextId + 1
    /\ calls' = Append(calls, [time |-> now, args |-> a])
    /\ UNCHANGED <<wait, now, invoked>>

\* Time passes.  A timer that is due need not fire at once: setTimeout promises
\* no less than the delay, not exactly the delay.
Tick ==
    /\ now < MaxTime
    /\ now' = now + 1
    /\ UNCHANGED <<wait, timeout, timers, nextId, calls, invoked>>

\* Lines 152-155: a due timer fires and runs `later`: clearTimeout(timeout),
\* then func(...args) with the args of the call that scheduled the timer.
Fire(t) ==
    /\ t \in timers
    /\ t.due <= now
    /\ timers' = ClearTimeout(timers \ {t}, timeout)
    /\ invoked' = Append(invoked, [time |-> now, args |-> t.args, ncalls |-> Len(calls)])
    /\ UNCHANGED <<wait, now, timeout, nextId, calls>>

(***************************************************************************)
(* main.js: extractText (lines 258-294)                                    *)
(***************************************************************************)

\* Number of invocations of extractText that may be pending at once.
MaxExtract == 2

Invocations == 1..MaxExtract

\* The labels the button may carry; Busy is the label of line 265.
Labels == {"extract", "retry"}

Busy == "busy"

\* response.json()'s values that matter: data.success, and whether data.text
\* is a string.
Datas == [success : BOOLEAN, hasText : BOOLEAN]

\* The ways an invocation that has disabled the button can end.
Outcomes == {"filled", "toastOnly", "notSuccess", "fetchRejected", "jsonRejected",
             "handleThrew"}

ExtractInit ==
    /\ button \in [disabled : {FALSE}, textContent : Labels]
    /\ textarea \in [exists : BOOLEAN, filled : {FALSE}]
    /\ xt = [c \in Invocations |-> [pc |-> "idle", originalText |-> ""]]
    /\ seen = {}

\* Lines 259-270: button = event.target, originalText = button.textContent,
\* the button is disabled and relabelled, and fetch is started.
StartExtract(c) ==
    /\ xt[c].pc = "idle"
    /\ xt' = [xt EXCEPT ![c] = [pc |-> "fetch", originalText |-> button.textContent]]
    /\ button' = [disabled |-> TRUE, textContent |-> Busy]
    /\ UNCHANGED <<textarea, seen>>

\* Line 268: fetch resolves; response.json() is started (line 272).
FetchResolve(c) ==
    /\ xt[c].pc = "fetch"
    /\ xt' = [xt EXCEPT ![c].pc = "json"]
    /\ UNCHANGED <<button, textarea, seen>>

\* Lines 274-285: what handling `data` comes to.  data.text.substring throws
\* when there is no textarea and data.text is not a string.
HandleData(d) ==
    IF d.success
      THEN IF textarea.exists THEN "filled"
           ELSE IF d.hasText THEN "toastOnly" ELSE "handleThrew"
      ELSE "notSuccess"

\* A variant that restores the button at the end of the try block, not in a
\* finally block.
RestoredOnlyAfterTry(o) == o \in {"filled", "toastOnly", "notSuccess"}

\* Lines 289-293: the finally block runs however the try block was left.
Restored(o) == o \in Outcomes

\* The invocation ends with outcome o: the catch block (lines 286-288) when an
\* error was thrown, then the finally block.
Finish(c, o) ==
    /\ xt' = [xt EXCEPT ![c] = [pc |-> "idle", originalText |-> @.originalText]]
    /\ button' = IF Restored(o)
                   THEN [disabled |-> FALSE, textContent |-> xt[c].originalText]
                   ELSE button
    /\ textarea' = IF o = "filled" THEN [textarea EXCEPT !.filled = TRUE] ELSE textarea
    /\ seen' = seen \cup {o}

\* fetch rejects.
FetchReject(c) ==
    /\ xt[c].pc = "fetch"
    /\ Finish(c, "fetchRejected")

\* response.json() rejects.
JsonReject(c) ==
    /\ xt[c].pc = "json"
    /\ Finish(c, "jsonRejected")

\* response.json() resolves with d, which lines 274-285 handle.
JsonResolve(c, d) ==
    /\ xt[c].pc = "json"
    /\ Finish(c, HandleData(d))

(***************************************************************************)
(* main.js: showLoading / hideLoading (lines 50-74), showToast (89-113)    *)
(***************************************************************************)

\* Number of elements main.js may have in document.body at once.
MaxNodes == 4

\* Number of elements created in a run.
MaxSerial == 5

LoadingInit ==
    /\ body = <<>>
    /\ serial = 0
    /\ lastOp = "none"

\* The position in `b` of the first element with this id, 0 when there is none:
\* document.getElementById answers the first in document order.
GetElementById(b, id) ==
    IF \E i \in 1..Len(b) : b[i].id = id
      THEN CHOOSE i \in 1..Len(b) : b[i].id = id /\ \A j \in 1..(i - 1) : b[j].id # id
      ELSE 0

\* element.remove() of the element at position i.
RemoveAt(b, i) == SubSeq(b, 1, i - 1) \o SubSeq(b, i + 1, Len(b))

\* Lines 50-67: a new div with id 'loading-overlay' is appended to the body.
ShowLoading ==
    /\ Len(body) < MaxNodes
    /\ serial < MaxSerial
    /\ body' = Append(body, [id |-> "loading-overlay", n |-> serial + 1])
    /\ serial' = serial + 1
    /\ lastOp' = "showLoading"

\* Lines 69-74: the element getElementById finds, if any, is removed.
HideLoading ==
    /\ LET i == GetElementById(body, "loading-overlay")
       IN body' = IF i # 0 THEN RemoveAt(body, i) ELSE body
    /\ lastOp' = "hideLoading"
    /\ UNCHANGED serial

\* Lines 89-107: showToast appends a div that has no id.
ShowToast ==
    /\ Len(body) < MaxNodes
    /\ serial < MaxSerial
    /\ body' = Append(body, [id |-> "", n |-> serial + 1])
    /\ serial' = serial + 1
    /\ lastOp' = "showToast"

\* Lines 109-112: the toast's timers remove it.
ToastRemove(i) ==
    /\ i \in 1..Len(body)
    /\ body[i].id = ""
    /\ body' = RemoveAt(body, i)
    /\ lastOp' = "toastRemove"
    /\ UNCHANGED serial

(***************************************************************************)
(* Specifications                                                          *)
(***************************************************************************)

RenderParked ==
    /\ argc = 2
    /\ htmlExists = TRUE
    /\ execOverride = FALSE
    /\ execExists = TRUE
    /\ pc = "main"
    /\ waiting = "none"
    /\ inflight = {}
    /\ browser = "undefined"
    /\ closeCalls = 0
    /\ outputWritten = FALSE
    /\ exitCode = -1
    /\ attempts = [s \in StepSet |-> 0]
    /\ completed = <<>>
    /\ failed = "none"
    /\ generateCalled = FALSE
    /\ promise = "none"

DebounceParked ==
    /\ wait = 1
    /\ now = 0
    /\ timeout = 0
    /\ timers = {}
    /\ nextId = 1
    /\ calls = <<>>
    /\ invoked = <<>>

ExtractParked ==
    /\ button = [disabled |-> FALSE, textContent |-> "extract"]
    /\ textarea = [exists |-> TRUE, filled |-> FALSE]
    /\ xt = [c \in Invocations |-> [pc |-> "idle", originalText |-> ""]]
    /\ seen = {}

\* The synchronous continuations of the script: once enabled they run, the
\* event loop has nothing else to do.
RenderSync ==
    /\ ArgCheck \/ ExistsCheck \/ CatchBlock \/ FinallyBlock \/ ThenHandler \/ CatchHandler
    /\ UNCHANGED <<debounceVars, extractVars, loadingVars>>

\* The pipeline makes the call it has reached.
RenderBegin ==
    /\ \E s \in TrySteps : Begin(s)
    /\ UNCHANGED <<debounceVars, extractVars, loadingVars>>

NextRender ==
    \/ ArgCheck /\ UNCHANGED <<debounceVars, extractVars, loadingVars>>
    \/ ExistsCheck /\ UNCHANGED <<debounceVars, extractVars, loadingVars>>
    \/ \E s \in TrySteps : Begin(s) /\ UNCHANGED <<debounceVars, extractVars, loadingVars>>
    \/ \E s \in TrySteps : Complete(s) /\ UNCHANGED <<debounceVars, extractVars, loadingVars>>
    \/ \E s \in TrySteps : Throw(s) /\ UNCHANGED <<debounceVars, extractVars, loadingVars>>
    \/ CatchBlock /\ UNCHANGED <<debounceVars, extractVars, loadingVars>>
    \/ FinallyBlock /\ UNCHANGED <<debounceVars, extractVars, loadingVars>>
    \/ CloseDone /\ UNCHANGED <<debounceVars, extractVars, loadingVars>>
    \/ CloseThrow /\ UNCHANGED <<debounceVars, extractVars, loadingVars>>
    \/ ThenHandler /\ UNCHANGED <<debounceVars, extractVars, loadingVars>>
    \/ CatchHandler /\ UNCHANGED <<debounceVars, extractVars, loadingVars>>

InitRender == RenderInit /\ DebounceParked /\ ExtractParked /\ LoadingInit

SpecRender == InitRender /\ [][NextRender]_vars

\* The same program with the scheduling Node guarantees: runnable JavaScript
\* runs (a call the pipeline has reached is made, a handler whose promise has
\* settled is run).  Nothing is assumed of the browser: a step may never settle.
FairSpecRender ==
    /\ InitRender
    /\ [][NextRender]_vars
    /\ WF_vars(RenderSync)
    /\ WF_vars(RenderBegin)

NextDebounce ==
    \/ \E a \in 1..NumArgs : Call(a) /\ UNCHANGED <<renderVars, extractVars, loadingVars>>
    \/ Tick /\ UNCHANGED <<renderVars, extractVars, loadingVars>>
    \/ \E t \in timers : Fire(t) /\ UNCHANGED <<renderVars, extractVars, loadingVars>>

InitDebounce == RenderParked /\ DebounceInit /\ ExtractParked /\ LoadingInit

SpecDebounce == InitDebounce /\ [][NextDebounce]_vars

NextExtract ==
    \/ \E c \in Invocations : StartExtract(c) /\ UNCHANGED <<renderVars, debounceVars, loadingVars>>
    \/ \E c \in Invocations : FetchResolve(c) /\ UNCHANGED <<renderVars, debounceVars, loadingVars>>
    \/ \E c \in Invocations : FetchReject(c) /\ UNCHANGED <<renderVars, debounceVars, loadingVars>>
    \/ \E c \in Invocations : JsonReject(c) /\ UNCHANGED <<renderVars, debounceVars, loadingVars>>
    \/ \E c \in Invocations, d \in Datas :
          JsonResolve(c, d) /\ UNCHANGED <<renderVars, debounceVars, loadingVars>>

InitExtract == RenderParked /\ DebounceParked /\ ExtractInit /\ LoadingInit

SpecExtract == InitExtract /\ [][NextExtract]_vars

NextLoading ==
    \/ ShowLoading /\ UNCHANGED <<renderVars, debounceVars, extractVars>>
    \/ HideLoading /\ UNCHANGED <<renderVars, debounceVars, extractVars>>
    \/ ShowToast /\ UNCHANGED <<renderVars, debounceVars, extractVars>>
    \/ \E i \in 1..Len(body) : ToastRemove(i) /\ UNCHANGED <<renderVars, debounceVars, extractVars>>

InitLoading == RenderParked /\ DebounceParked /\ ExtractParked /\ LoadingInit

SpecLoading == InitLoading /\ [][NextLoading]_vars

(***************************************************************************)
(* Properties of pdf_render.js                                             *)
(***************************************************************************)

Range(q) == {q[i] : i \in 1..Len(q)}

Exited == exitCode # -1

\* C1: in every run in which puppeteer.launch succeeded, browser.close() has
\* been called by the time the process exits, whatever the exit path.
CloseCalledBeforeExit == (Exited /\ "launch" \in Range(completed)) => closeCalls >= 1

\* C2: with an htmlPath that does not exist, generatePDF never calls
\* puppeteer.launch, writes no file at outputPath, and the process exits with
\* status 1.
MissingHtmlExitsBeforeLaunch ==
    (generateCalled /\ ~htmlExists) =>
        /\ attempts["launch"] = 0
        /\ ~outputWritten
        /\ pc \in {"exists", "exited"}
        /\ pc = "exited" => exitCode = 1

MissingHtmlWitness == generateCalled /\ ~htmlExists /\ exitCode = 1

\* C3: with an argument count other than 2, the process exits with a non-zero
\* status and neither generatePDF nor puppeteer.launch is ever invoked.
WrongArityExitsBeforeGenerate ==
    argc # 2 =>
        /\ ~generateCalled
        /\ attempts["launch"] = 0
        /\ pc \in {"main", "exited"}
        /\ pc = "exited" => exitCode > 0

WrongArityWitness == argc = 3 /\ pc = "exited" /\ exitCode = 1

\* C4: the process exits with status 0 only if every step of the pipeline
\* completed, in order, none failed, page.pdf wrote the file at outputPath and
\* the browser was closed before the exit.
ExitZeroOnlyAfterFullPipeline ==
    exitCode = 0 =>
        /\ completed = Steps
        /\ failed = "none"
        /\ outputWritten
        /\ browser = "closed"
        /\ inflight = {}

ExitZeroWitness == exitCode = 0 /\ outputWritten /\ closeCalls = 1

\* C5: whenever the process exits with a non-zero status, no file was written
\* at outputPath in that invocation.
NonZeroExitLeavesNoFile == (Exited /\ exitCode # 0) => ~outputWritten

\* The steps before step s, in source order.
Before(s) == LET i == CHOOSE k \in 1..Len(Steps) : Steps[k] = s IN SubSeq(Steps, 1, i - 1)

\* C6: the steps run in the fixed order launch, setContent, font wait, settle
\* delay, page.pdf, browser.close; a step begins only when all the steps before
\* it have completed, and no two steps are in flight at once.
StepsStrictlySequential ==
    /\ Cardinality(inflight) <= 1
    /\ \A s \in inflight : completed = Before(s)
    /\ \E n \in 0..Len(Steps) : completed = SubSeq(Steps, 1, n)

PdfInFlightWitness ==
    /\ inflight = {"pdf"}
    /\ completed = <<"launch", "newPage", "readFile", "setContent", "fonts", "delay">>

\* C7: when puppeteer.launch or a later step of the try block throws, the
\* process eventually exits with a non-zero status, and no step is ever
\* attempted twice.
FailureExitsAfterOneAttempt ==
    /\ [](\A s \in StepSet : attempts[s] <= 1)
    /\ (failed \in TrySteps) ~> (exitCode > 0)

LaunchFailureWitness ==
    /\ failed = "launch"
    /\ ~execExists
    /\ execOverride
    /\ exitCode = 1
    /\ attempts["launch"] = 1

(***************************************************************************)
(* Properties of main.js                                                   *)
(***************************************************************************)

\* The burst call k belongs to: a new burst starts with a call that comes
\* `wait` or more after the call before it.
BurstOf(k) == 1 + Cardinality({j \in 2..k : calls[j].time - calls[j - 1].time >= wait})

\* C8: a call cancels the pending timer, so at most one timer is pending and
\* it holds the last call's arguments; func runs at most once per burst, only
\* when `wait` has elapsed since the last call with no newer call in between,
\* and with the arguments of that last call.
DebounceRunsLastCallOnce ==
    /\ Cardinality(timers) <= 1
    /\ \A t \in timers :
          /\ t.id = timeout
          /\ Len(calls) >= 1
          /\ t.args = calls[Len(calls)].args
          /\ t.due = calls[Len(calls)].time + wait
    /\ \A i \in 1..Len(invoked) :
          /\ invoked[i].ncalls >= 1
          /\ invoked[i].args = calls[invoked[i].ncalls].args
          /\ invoked[i].time >= calls[invoked[i].ncalls].time + wait
    /\ \A i, j \in 1..Len(invoked) :
          i < j => BurstOf(invoked[i].ncalls) # BurstOf(invoked[j].ncalls)

DebounceWitness ==
    /\ wait >= 1
    /\ Len(calls) = 3
    /\ calls[2].time - calls[1].time < wait
    /\ calls[1].args # calls[2].args
    /\ Len(invoked) = 2
    /\ invoked[1].ncalls = 2
    /\ invoked[2].ncalls = 3

\* C9: every way an invocation of extractText that has disabled the button can
\* end leaves the button enabled and its textContent set back to the value it
\* had when that invocation started.
ExtractRestoresButton ==
    [][\A c \in Invocations :
          (xt[c].pc # "idle" /\ xt'[c].pc = "idle") =>
              button' = [disabled |-> FALSE, textContent |-> xt[c].originalText]]_vars

ExtractWitness ==
    /\ {"notSuccess", "fetchRejected", "jsonRejected", "handleThrew", "toastOnly"} \subseteq seen
    /\ \A c \in Invocations : xt[c].pc = "idle"
    /\ button = [disabled |-> FALSE, textContent |-> "retry"]

\* C10: whenever hideLoading() has just returned, no element with id
\* 'loading-overlay' is left in the document.
HideLoadingLeavesNoOverlay ==
    lastOp = "hideLoading" => GetElementById(body, "loading-overlay") = 0
====
